---- MODULE Spec2Model ----
(***************************************************************************)
(* Model of internal/runner/entry.go: the entryReader (registry of DAG     *)
(* heads guarded by dagsLock, filled by initDags and kept current by the   *)
(* watchDags goroutine), Read, and Entry.Invoke.                           *)
(***************************************************************************)
EXTENDS Integers, Sequences, FiniteSets, TLC

(* ------------------------------ bounds -------------------------------- *)
MaxFsOps == 2
MaxErrs == 1
MaxNow == 2
MaxBatch == 2

(* --------------------------- names and paths -------------------------- *)
\* A name is a record: dir = "" for a base name (fi.Name(), the registry
\* keys), dir = DAGs for a path inside the watched directory (event.Name).
NoDir == ""
DAGs == "dags"

EXTENSIONS == {"yaml", "yml"}

FileA == [dir |-> NoDir, stem |-> "a", ext |-> "yaml"]
FileB == [dir |-> NoDir, stem |-> "b", ext |-> "yml"]
FileX == [dir |-> NoDir, stem |-> "x", ext |-> "txt"]

\* the directory entries in the order os.ReadDir returns them (by file name)
AllFiles == <<FileA, FileB, FileX>>
Files == {AllFiles[i] : i \in 1..Len(AllFiles)}

MatchExtension(name, exts) == name.ext \in exts

Join(d, name) == [name EXCEPT !.dir = d]

Base(name) == [name EXCEPT !.dir = NoDir]

DefFiles == {f \in Files : MatchExtension(f, EXTENSIONS)}

(* ------------------------- schedules and heads ------------------------ *)
\* A parsed schedule expression fires at every multiple of "every";
\* every = 0 is an expression with no satisfiable occurrence.
ZeroTime == 0
Every1 == [every |-> 1]
Every2 == [every |-> 2]
Never == [every |-> 0]

ParsedNext(ss, now) ==
    IF ss.every = 0 THEN ZeroTime ELSE ((now \div ss.every) + 1) * ss.every

\* file contents the loader distinguishes
Absent == "absent"
Bad == "bad"
Valid == {"v1", "v2"}
Contents == {Absent, Bad} \cup Valid

\* the head of a definition file; obj is the identity of the *dag.DAG object
\* that holds it (0: allocated by the initial scan)
HeadOf(path, c) ==
    [obj |-> 0,
     Location |-> path,
     Name |-> path.stem,
     Schedule |-> IF c = "v1" THEN <<Every1>> ELSE <<Every2, Every2>>,
     StopSchedule |-> IF c = "v1" THEN <<Every2>> ELSE <<>>,
     RestartSchedule |-> IF c = "v1" THEN <<>> ELSE <<Never>>]

NilDAG ==
    [obj |-> 0, Location |-> [dir |-> NoDir, stem |-> "", ext |-> ""], Name |-> "",
     Schedule |-> <<>>, StopSchedule |-> <<>>, RestartSchedule |-> <<>>]

\* cl.LoadHeadOnly(path) against the directory contents dir: (dag, err)
LoadHeadOnly(dir, path) ==
    IF path.dir = DAGs /\ Base(path) \in DOMAIN dir /\ dir[Base(path)] \in Valid
    THEN [dag |-> HeadOf(path, dir[Base(path)]), err |-> FALSE]
    ELSE [dag |-> NilDAG, err |-> TRUE]

NoLoad == [dag |-> NilDAG, err |-> FALSE]

\* the loader returns a pointer to an object it has just allocated: id tells
\* it from the objects of earlier loads (loads of one path with no change of
\* the directory in between return equal heads and share an id)
Fresh(r, id) == IF r.err THEN r ELSE [r EXCEPT !.dag.obj = id]

(* ------------------------------- Entry -------------------------------- *)
EntryTypeStart == 0
EntryTypeStop == 1
EntryTypeRestart == 2
EntryTypes == {EntryTypeStart, EntryTypeStop, EntryTypeRestart}

(* ------------------------------- state -------------------------------- *)
VARIABLES
    dirOK,      \* the DAGs directory exists and can be listed
    fs,         \* Files -> Contents: the directory's files
    fsOps,      \* number of filesystem changes made so far
    suspended,  \* names of the DAGs the suspend flags mark suspended
    dags,       \* er.dags: base name -> head
    dagsLock,   \* er.dagsLock: "free" or its holder
    halted,     \* log.Fatal ended the process
    mainPc,     \* position of newEntryReader / initDags
    fis,        \* initDags: the listing
    idx,        \* initDags: loop position in fis
    fileNames,  \* initDags: names loaded
    warnings,   \* initDags: "failed to read dag config" lines logged
    initErr,    \* newEntryReader: initDags returned an error
    pcW,        \* position of the watchDags goroutine
    wEvent,     \* watchDags: the event being handled
    wLoaded,    \* watchDags: result of LoadHeadOnly for the event
    wPre,       \* the registry when the event was received
    fold,       \* history: the handled events folded over the scan result
    watching,   \* watcher.Add succeeded: the directory is watched
    addFailed,  \* watcher.Add returned an error (discarded by the code)
    wClosed,    \* watcher.Close has been called
    pending,    \* watcher: path -> the event kind waiting for its window
    burst,      \* path -> the raw kinds observed in the open window, in order
    evq,        \* watcher.Events(): delivered, not yet received
    evClosed,   \* watcher.Events() is closed
    errq,       \* watcher.Errors(): values sent, not yet received
    errsSent,   \* number of transport errors reported so far
    errsSeen,   \* number of transport errors the loop has logged
    errClosed,  \* watcher.Errors() is closed
    pcR,        \* position of a Read call
    now,        \* Read: its argument
    entries,    \* Read: the result being built
    rdSeen,     \* Read: keys already iterated
    rdSnap,     \* the heads Read saw, by key
    rdSusp,     \* the keys the suspend checker reported suspended
    rdErr,      \* the error Read returned
    rdHist,     \* registry states committed since Read took the lock
    batch,      \* Invoke: the Entries of one batch
    rets,       \* Invoke: per Entry, the value Invoke returned
    trace       \* Invoke: the log lines and Job calls, in order

initVars == <<mainPc, fis, idx, fileNames, warnings, initErr>>
envVars == <<dirOK, fs, fsOps>>
chanVars == <<pending, burst, evq, evClosed, errq, errsSent, errClosed>>
watchVars == <<pcW, wEvent, wLoaded, wPre, fold, watching, addFailed, wClosed, errsSeen>>
readVars == <<pcR, now, entries, rdSeen, rdSnap, rdSusp, rdErr>>
invVars == <<batch, rets, trace>>
vars == <<envVars, suspended, dags, dagsLock, halted, initVars, chanVars,
          watchVars, readVars, rdHist, invVars>>

Put(m, k, v) == [x \in DOMAIN m \cup {k} |-> IF x = k THEN v ELSE m[x]]

Delete(m, k) == [x \in DOMAIN m \ {k} |-> m[x]]

EmptyMap == [x \in {} |-> 0]

NoOp == {}
NoEvent == [Name |-> Join(DAGs, FileX), Op |-> NoOp, burst |-> <<>>]

(* --------------------------- newEntryReader --------------------------- *)
InitEnv ==
    /\ dirOK \in BOOLEAN
    /\ fs \in [Files -> Contents]
    /\ fs[FileX] = "v1"
    /\ dirOK = FALSE => \A f \in DefFiles : fs[f] = Absent
    /\ fsOps = 0

InitWatch ==
    /\ wEvent = NoEvent
    /\ wLoaded = NoLoad
    /\ wPre = EmptyMap
    /\ addFailed = FALSE
    /\ wClosed = FALSE
    /\ errsSeen = 0
    /\ pending = [f \in Files |-> NoOp]
    /\ burst = [f \in Files |-> <<>>]
    /\ evq = <<>>
    /\ evClosed = FALSE
    /\ errq = 0
    /\ errsSent = 0
    /\ errClosed = FALSE

NilErr == "nil"
NotReturned == "not returned"

InitRead ==
    /\ pcR = "idle"
    /\ now = 0
    /\ entries = <<>>
    /\ rdSeen = {}
    /\ rdSnap = EmptyMap
    /\ rdSusp = {}
    /\ rdErr = NotReturned
    /\ rdHist = {}

InitInvoke ==
    /\ batch = <<>>
    /\ rets = <<>>
    /\ trace = <<>>

Init ==
    /\ InitEnv
    /\ suspended = {}
    /\ dags = EmptyMap
    /\ dagsLock = "free"
    /\ halted = FALSE
    /\ mainPc = "init"
    /\ fis = <<>>
    /\ idx = 0
    /\ fileNames = <<>>
    /\ warnings = 0
    /\ initErr = FALSE
    /\ pcW = "off"
    /\ watching = FALSE
    /\ fold = EmptyMap
    /\ InitWatch
    /\ InitRead
    /\ InitInvoke

(* ------------------------------ initDags ------------------------------ *)
\* os.ReadDir: the present files, sorted by name
ReadDir(dir) == SelectSeq(AllFiles, LAMBDA f : dir[f] # Absent)

\* one iteration of the loop over fis: the registry afterwards
ScanFile(d, dir, fi) ==
    IF MatchExtension(fi, EXTENSIONS) /\ ~LoadHeadOnly(dir, Join(DAGs, fi)).err
    THEN Put(d, fi, LoadHeadOnly(dir, Join(DAGs, fi)).dag)
    ELSE d

InitLock ==
    /\ mainPc = "init"
    /\ dagsLock = "free"
    /\ dagsLock' = "main"
    /\ mainPc' = "readDir"
    /\ UNCHANGED <<envVars, suspended, dags, halted, fis, idx, fileNames, warnings,
                   initErr, chanVars, watchVars, readVars, rdHist, invVars>>

InitReadDir ==
    /\ mainPc = "readDir"
    /\ IF dirOK
       THEN /\ fis' = ReadDir(fs)
            /\ idx' = 1
            /\ mainPc' = "scan"
            /\ UNCHANGED <<dagsLock, initErr>>
       ELSE /\ initErr' = TRUE
            /\ dagsLock' = "free"
            /\ mainPc' = "initDone"
            /\ UNCHANGED <<fis, idx>>
    /\ UNCHANGED <<envVars, suspended, dags, halted, fileNames, warnings,
                   chanVars, watchVars, readVars, rdHist, invVars>>

\* mutant: a load failure ends the scan with an error
InitScanAbort ==
    /\ mainPc = "scan"
    /\ idx <= Len(fis)
    /\ IF MatchExtension(fis[idx], EXTENSIONS)
          /\ LoadHeadOnly(fs, Join(DAGs, fis[idx])).err
       THEN /\ initErr' = TRUE
            /\ dagsLock' = "free"
            /\ mainPc' = "initDone"
            /\ UNCHANGED <<dags, fileNames, idx>>
       ELSE /\ dags' = ScanFile(dags, fs, fis[idx])
            /\ fileNames' = IF MatchExtension(fis[idx], EXTENSIONS)
                            THEN Append(fileNames, fis[idx]) ELSE fileNames
            /\ idx' = idx + 1
            /\ UNCHANGED <<dagsLock, mainPc, initErr>>
    /\ UNCHANGED <<envVars, suspended, halted, fis, warnings, chanVars, watchVars,
                   readVars, rdHist, invVars>>

InitScan ==
    /\ mainPc = "scan"
    /\ idx <= Len(fis)
    /\ dags' = ScanFile(dags, fs, fis[idx])
    /\ fileNames' = IF MatchExtension(fis[idx], EXTENSIONS)
                       /\ ~LoadHeadOnly(fs, Join(DAGs, fis[idx])).err
                    THEN Append(fileNames, fis[idx]) ELSE fileNames
    /\ warnings' = IF MatchExtension(fis[idx], EXTENSIONS)
                      /\ LoadHeadOnly(fs, Join(DAGs, fis[idx])).err
                   THEN warnings + 1 ELSE warnings
    /\ idx' = idx + 1
    /\ UNCHANGED <<envVars, suspended, dagsLock, halted, mainPc, fis, initErr,
                   chanVars, watchVars, readVars, rdHist, invVars>>

InitReturn ==
    /\ mainPc = "scan"
    /\ idx > Len(fis)
    /\ dagsLock' = "free"
    /\ mainPc' = "initDone"
    /\ UNCHANGED <<envVars, suspended, dags, halted, fis, idx, fileNames, warnings,
                   initErr, chanVars, watchVars, readVars, rdHist, invVars>>

\* newEntryReader after initDags: log the error if any, start the goroutine
\* and return the reader; initDags' locals are gone
GoWatch ==
    /\ mainPc = "initDone"
    /\ mainPc' = "returned"
    /\ pcW' = "new"
    /\ fis' = <<>>
    /\ idx' = 0
    /\ fileNames' = <<>>
    /\ warnings' = 0
    /\ fold' = dags
    /\ UNCHANGED <<envVars, suspended, dags, dagsLock, halted, initErr, chanVars,
                   wEvent, wLoaded, wPre, watching, addFailed, wClosed, errsSeen,
                   readVars, rdHist, invVars>>

(* ------------------------------ watcher ------------------------------- *)
\* fsnotify.Op is a bit mask; an Op is the set of its bits
Create == {"Create"}
Write == {"Write"}
Remove == {"Remove"}
Rename == {"Rename"}
Chmod == {"Chmod"}
CreateWrite == {"Create", "Write"}

\* mutant: the first kind of a burst is kept
CoalesceFirst(old, new) == IF old = NoOp THEN new ELSE old

\* the kind left waiting for a path after one more raw event: the last one
Coalesce(old, new) == new

\* a raw notification for file f reaches the watcher
Notify(f, op) ==
    IF watching /\ ~wClosed /\ ~evClosed
    THEN /\ pending' = [pending EXCEPT ![f] = Coalesce(pending[f], op)]
         /\ burst' = [burst EXCEPT ![f] = Append(burst[f], op)]
    ELSE UNCHANGED <<pending, burst>>

CanChange ==
    /\ ~halted
    /\ dirOK
    /\ mainPc = "returned"
    /\ fsOps < MaxFsOps

FsCreate(f, c, op) ==
    /\ CanChange
    /\ fs[f] = Absent
    /\ fs' = [fs EXCEPT ![f] = c]
    /\ fsOps' = fsOps + 1
    /\ Notify(f, op)
    /\ UNCHANGED <<dirOK, suspended, dags, dagsLock, halted, initVars, evq, evClosed,
                   errq, errsSent, errClosed, watchVars, readVars, rdHist, invVars>>

FsWrite(f, c) ==
    /\ CanChange
    /\ fs[f] # Absent
    /\ fs' = [fs EXCEPT ![f] = c]
    /\ fsOps' = fsOps + 1
    /\ Notify(f, Write)
    /\ UNCHANGED <<dirOK, suspended, dags, dagsLock, halted, initVars, evq, evClosed,
                   errq, errsSent, errClosed, watchVars, readVars, rdHist, invVars>>

FsChmod(f) ==
    /\ CanChange
    /\ fs[f] # Absent
    /\ fsOps' = fsOps + 1
    /\ Notify(f, Chmod)
    /\ UNCHANGED <<dirOK, fs, suspended, dags, dagsLock, halted, initVars, evq,
                   evClosed, errq, errsSent, errClosed, watchVars, readVars, rdHist,
                   invVars>>

FsRemove(f, op) ==
    /\ CanChange
    /\ fs[f] # Absent
    /\ fs' = [fs EXCEPT ![f] = Absent]
    /\ fsOps' = fsOps + 1
    /\ Notify(f, op)
    /\ UNCHANGED <<dirOK, suspended, dags, dagsLock, halted, initVars, evq, evClosed,
                   errq, errsSent, errClosed, watchVars, readVars, rdHist, invVars>>

\* watcher.Events() is unbuffered: at most one send waits for the loop
ChanCap == 1

\* the window of path f elapses: its pending kind is delivered once
Deliver(f) ==
    /\ ~halted
    /\ pending[f] # NoOp
    /\ ~evClosed
    /\ Len(evq) < ChanCap
    /\ evq' = Append(evq, [Name |-> Join(DAGs, f), Op |-> pending[f],
                           burst |-> burst[f]])
    /\ pending' = [pending EXCEPT ![f] = NoOp]
    /\ burst' = [burst EXCEPT ![f] = <<>>]
    /\ UNCHANGED <<envVars, suspended, dags, dagsLock, halted, initVars, evClosed,
                   errq, errsSent, errClosed, watchVars, readVars, rdHist, invVars>>

\* the underlying primitive reports a transport error
SendError ==
    /\ pcW \in {"select", "lock", "load", "remove", "unlock"}
    /\ ~errClosed
    /\ errsSent < MaxErrs
    /\ errq' = errq + 1
    /\ errsSent' = errsSent + 1
    /\ UNCHANGED <<envVars, suspended, dags, dagsLock, halted, initVars, pending,
                   burst, evq, evClosed, errClosed, watchVars, readVars, rdHist,
                   invVars>>

CloseEvents ==
    /\ pcW \in {"select", "lock", "load", "remove", "unlock"}
    /\ ~evClosed
    /\ evClosed' = TRUE
    /\ pending' = [f \in Files |-> NoOp]
    /\ burst' = [f \in Files |-> <<>>]
    /\ UNCHANGED <<envVars, suspended, dags, dagsLock, halted, initVars, evq, errq,
                   errsSent, errClosed, watchVars, readVars, rdHist, invVars>>

CloseErrors ==
    /\ pcW \in {"select", "lock", "load", "remove", "unlock"}
    /\ ~errClosed
    /\ errClosed' = TRUE
    /\ UNCHANGED <<envVars, suspended, dags, dagsLock, halted, initVars, pending,
                   burst, evq, evClosed, errq, errsSent, watchVars, readVars, rdHist,
                   invVars>>

(* ----------------------------- watchDags ------------------------------ *)
Running == {"select", "lock", "load", "remove", "unlock"}

\* filenotify.New: on an error log.Fatal ends the process
WatchNew ==
    /\ pcW = "new"
    /\ \E ok \in BOOLEAN :
          IF ok THEN pcW' = "add" /\ UNCHANGED halted
                ELSE pcW' = "fatal" /\ halted' = TRUE
    /\ UNCHANGED <<envVars, suspended, dags, dagsLock, initVars, chanVars, wEvent,
                   wLoaded, wPre, fold, watching, addFailed, wClosed, errsSeen, readVars,
                   rdHist, invVars>>

\* _ = watcher.Add(er.Admin.DAGs): the result is discarded
WatchAdd ==
    /\ pcW = "add"
    /\ \E ok \in (IF dirOK THEN BOOLEAN ELSE {FALSE}) :
          /\ watching' = ok
          /\ addFailed' = ~ok
    /\ pcW' = "select"
    /\ UNCHANGED <<envVars, suspended, dags, dagsLock, halted, initVars, chanVars,
                   wEvent, wLoaded, wPre, fold, wClosed, errsSeen, readVars, rdHist,
                   invVars>>

\* case event, ok := <-watcher.Events(), ok, up to the extension filter
\* mutant: the loop handles an event whatever the extension of its name
WatchRecvEventNoFilter ==
    /\ pcW = "select"
    /\ evq # <<>>
    /\ evq' = Tail(evq)
    /\ wEvent' = Head(evq)
    /\ wPre' = dags
    /\ pcW' = "lock"
    /\ UNCHANGED <<envVars, suspended, dags, dagsLock, halted, initVars, pending,
                   burst, evClosed, errq, errsSent, errClosed, wLoaded, fold, watching,
                   addFailed, wClosed, errsSeen, readVars, rdHist, invVars>>

WatchRecvEvent ==
    /\ pcW = "select"
    /\ evq # <<>>
    /\ evq' = Tail(evq)
    /\ IF MatchExtension(Head(evq).Name, EXTENSIONS)
       THEN /\ wEvent' = Head(evq)
            /\ wPre' = dags
            /\ pcW' = "lock"
       ELSE UNCHANGED <<wEvent, wPre, pcW>>
    /\ UNCHANGED <<envVars, suspended, dags, dagsLock, halted, initVars, pending,
                   burst, evClosed, errq, errsSent, errClosed, wLoaded, fold, watching,
                   addFailed, wClosed, errsSeen, readVars, rdHist, invVars>>

\* mutant: an error value ends the loop
AfterErrorReturn == "done"

\* the position of the loop after a value received from watcher.Errors()
AfterError == "select"

\* what the loop holds and has closed once it has returned
ReturnLoop ==
    /\ pcW' = "done"
    /\ wClosed' = TRUE

\* case err, ok := <-watcher.Errors(), ok: log and go on
WatchRecvError ==
    /\ pcW = "select"
    /\ errq > 0
    /\ errq' = errq - 1
    /\ errsSeen' = errsSeen + 1
    /\ IF AfterError = "select" THEN UNCHANGED <<pcW, wClosed>> ELSE ReturnLoop
    /\ UNCHANGED <<envVars, suspended, dags, dagsLock, halted, initVars, pending,
                   burst, evq, evClosed, errsSent, errClosed, wEvent, wLoaded, wPre, fold,
                   watching, addFailed, readVars, rdHist, invVars>>

\* either channel is closed (!ok): return, the deferred Close runs
WatchClosed ==
    /\ pcW = "select"
    /\ \/ evq = <<>> /\ evClosed
       \/ errq = 0 /\ errClosed
    /\ ReturnLoop
    /\ UNCHANGED <<envVars, suspended, dags, dagsLock, halted, initVars, chanVars,
                   wEvent, wLoaded, wPre, fold, watching, addFailed, errsSeen, readVars,
                   rdHist, invVars>>

\* mutant: the loop goes on without taking dagsLock
WatchLockSkipped ==
    /\ pcW = "lock"
    /\ pcW' = "load"
    /\ UNCHANGED <<envVars, suspended, dags, dagsLock, halted, initVars, chanVars,
                   wEvent, wLoaded, wPre, fold, watching, addFailed, wClosed, errsSeen,
                   readVars, rdHist, invVars>>

WatchLock ==
    /\ pcW = "lock"
    /\ dagsLock = "free"
    /\ dagsLock' = "watcher"
    /\ pcW' = "load"
    /\ UNCHANGED <<envVars, suspended, dags, halted, initVars, chanVars, wEvent,
                   wLoaded, wPre, fold, watching, addFailed, wClosed, errsSeen, readVars,
                   rdHist, invVars>>

IsCreateOrWrite(op) == op = Create \/ op = Write

IsRenameOrRemove(op) == op = Rename \/ op = Remove

\* mutant: a failed reload drops the previous entry
ReloadDropOnError(d, ev, loaded) ==
    IF IsCreateOrWrite(ev.Op)
    THEN IF loaded.err THEN Delete(d, Base(ev.Name))
                       ELSE Put(d, Base(ev.Name), loaded.dag)
    ELSE d

\* mutant: a reload inserts a new key only and never replaces a head
ReloadKeepFirst(d, ev, loaded) ==
    IF IsCreateOrWrite(ev.Op) /\ ~loaded.err /\ Base(ev.Name) \notin DOMAIN d
    THEN Put(d, Base(ev.Name), loaded.dag)
    ELSE d

\* mutant: a reload of a known key copies the loaded head into the stored
\* object (*er.dags[key] = *dag) instead of storing the new pointer
ReloadInPlace(d, ev, loaded) ==
    IF IsCreateOrWrite(ev.Op) /\ ~loaded.err
    THEN IF Base(ev.Name) \in DOMAIN d
         THEN Put(d, Base(ev.Name),
                  [loaded.dag EXCEPT !.obj = d[Base(ev.Name)].obj])
         ELSE Put(d, Base(ev.Name), loaded.dag)
    ELSE d

\* lines 160-168: the registry after the (re)load of the event's file
Reload(d, ev, loaded) ==
    IF IsCreateOrWrite(ev.Op) /\ ~loaded.err
    THEN Put(d, Base(ev.Name), loaded.dag)
    ELSE d

\* mutant: only Remove deletes, Rename is forgotten
RemoveEntryNoRename(d, ev) ==
    IF ev.Op = Remove THEN Delete(d, Base(ev.Name)) ELSE d

\* lines 169-172: the registry after the removal branch
RemoveEntry(d, ev) ==
    IF IsRenameOrRemove(ev.Op) THEN Delete(d, Base(ev.Name)) ELSE d

WatchLoad ==
    /\ pcW = "load"
    /\ wLoaded' = IF IsCreateOrWrite(wEvent.Op)
                  THEN Fresh(LoadHeadOnly(fs, Join(DAGs, Base(wEvent.Name))), fsOps)
                  ELSE NoLoad
    /\ dags' = Reload(dags, wEvent, wLoaded')
    /\ pcW' = "remove"
    /\ UNCHANGED <<envVars, suspended, dagsLock, halted, initVars, chanVars, wEvent,
                   wPre, fold, watching, addFailed, wClosed, errsSeen, readVars, rdHist,
                   invVars>>

WatchRemove ==
    /\ pcW = "remove"
    /\ dags' = RemoveEntry(dags, wEvent)
    /\ pcW' = "unlock"
    /\ UNCHANGED <<envVars, suspended, dagsLock, halted, initVars, chanVars, wEvent,
                   wLoaded, wPre, fold, watching, addFailed, wClosed, errsSeen, readVars,
                   rdHist, invVars>>

\* history: one handled event folded into a registry, an insert or replace
\* for a Create or Write whose load succeeded, a delete for a Remove or Rename
FoldEvent(reg, ev, loaded) ==
    IF ev.Op \in {Create, Write}
    THEN IF loaded.err THEN reg ELSE Put(reg, Base(ev.Name), loaded.dag)
    ELSE IF ev.Op \in {Remove, Rename}
         THEN Delete(reg, Base(ev.Name))
         ELSE reg

\* mutant: after a failed load the loop goes on without the Unlock
WatchUnlockLeak ==
    /\ pcW = "unlock"
    /\ dagsLock' = IF wLoaded.err THEN dagsLock ELSE "free"
    /\ pcW' = "select"
    /\ wEvent' = NoEvent
    /\ wLoaded' = NoLoad
    /\ wPre' = EmptyMap
    /\ fold' = FoldEvent(fold, wEvent, wLoaded)
    /\ rdHist' = IF pcR = "iter" THEN rdHist \cup {dags} ELSE rdHist
    /\ UNCHANGED <<envVars, suspended, dags, halted, initVars, chanVars, watching,
                   addFailed, wClosed, errsSeen, readVars, invVars>>

WatchUnlock ==
    /\ pcW = "unlock"
    /\ dagsLock' = "free"
    /\ pcW' = "select"
    /\ wEvent' = NoEvent
    /\ wLoaded' = NoLoad
    /\ wPre' = EmptyMap
    /\ fold' = FoldEvent(fold, wEvent, wLoaded)
    /\ rdHist' = IF pcR = "iter" THEN rdHist \cup {dags} ELSE rdHist
    /\ UNCHANGED <<envVars, suspended, dags, halted, initVars, chanVars, watching,
                   addFailed, wClosed, errsSeen, readVars, invVars>>

(* -------------------------------- Read -------------------------------- *)
DagNames == {f.stem : f \in DefFiles}

\* er.suspendChecker.IsSuspended(d)
IsSuspended(d) == d.Name \in suspended

SetSuspended(n) ==
    /\ ~halted
    /\ mainPc = "returned"
    /\ suspended' = IF n \in suspended THEN suspended \ {n} ELSE suspended \cup {n}
    /\ UNCHANGED <<envVars, dags, dagsLock, halted, initVars, chanVars, watchVars,
                   readVars, rdHist, invVars>>

\* mutant: the Job is built without its Next
NewEntryJobNoNext(d, ss, e, t) ==
    [Next |-> ParsedNext(ss, t),
     Job |-> [DAG |-> d, Next |-> ZeroTime],
     EntryType |-> e]

NewEntry(d, ss, e, t) ==
    [Next |-> ParsedNext(ss, t),
     Job |-> [DAG |-> d, Next |-> ParsedNext(ss, t)],
     EntryType |-> e]

\* the closure f: one Entry per schedule of s, appended in order
F(d, s, e, t) == [i \in 1..Len(s) |-> NewEntry(d, s[i], e, t)]

\* mutant: the restart schedules are left out
ReadDagNoRestart(es, d, t, susp) ==
    IF susp
    THEN es
    ELSE es \o F(d, d.Schedule, EntryTypeStart, t)
            \o F(d, d.StopSchedule, EntryTypeStop, t)

\* mutant: an expression without a next occurrence aborts the batch
ReadDagAbortOnBad(es, d, t, susp) ==
    IF susp
    THEN es
    ELSE LET all == F(d, d.Schedule, EntryTypeStart, t)
                    \o F(d, d.StopSchedule, EntryTypeStop, t)
                    \o F(d, d.RestartSchedule, EntryTypeRestart, t)
         IN IF \E i \in 1..Len(all) : all[i].Next = ZeroTime
            THEN <<>>
            ELSE es \o all

\* the body of the loop over er.dags for one DAG
ReadDag(es, d, t, susp) ==
    IF susp
    THEN es
    ELSE es \o F(d, d.Schedule, EntryTypeStart, t)
            \o F(d, d.StopSchedule, EntryTypeStop, t)
            \o F(d, d.RestartSchedule, EntryTypeRestart, t)

Nows == 1..MaxNow

\* the instant of the Read that runs beside the scan and the watch loop
Ticks == {MaxNow}

\* Read is called: entries := []*Entry{}, then the call waits for dagsLock
ReadCall(t) ==
    /\ ~halted
    /\ pcR = "idle"
    /\ mainPc = "returned"
    /\ pcR' = "wait"
    /\ now' = t
    /\ entries' = <<>>
    /\ rdSeen' = {}
    /\ rdSnap' = EmptyMap
    /\ rdSusp' = {}
    /\ rdErr' = NotReturned
    /\ UNCHANGED <<envVars, suspended, dags, dagsLock, halted, initVars, chanVars,
                   watchVars, rdHist, invVars>>

ReadLock ==
    /\ ~halted
    /\ pcR = "wait"
    /\ dagsLock = "free"
    /\ dagsLock' = "reader"
    /\ pcR' = "iter"
    /\ rdHist' = {dags}
    /\ UNCHANGED <<envVars, suspended, dags, halted, initVars, chanVars, watchVars,
                   now, entries, rdSeen, rdSnap, rdSusp, rdErr, invVars>>

\* mutant: the loop drops a suspended DAG from the registry
ReadIterPrune(k) ==
    /\ ~halted
    /\ pcR = "iter"
    /\ k \in DOMAIN dags \ rdSeen
    /\ entries' = ReadDag(entries, dags[k], now, IsSuspended(dags[k]))
    /\ rdSeen' = rdSeen \cup {k}
    /\ rdSnap' = Put(rdSnap, k, dags[k])
    /\ rdSusp' = IF IsSuspended(dags[k]) THEN rdSusp \cup {k} ELSE rdSusp
    /\ dags' = IF IsSuspended(dags[k]) THEN Delete(dags, k) ELSE dags
    /\ UNCHANGED <<envVars, suspended, dagsLock, halted, initVars, chanVars,
                   watchVars, pcR, now, rdErr, rdHist, invVars>>

ReadIter(k) ==
    /\ ~halted
    /\ pcR = "iter"
    /\ k \in DOMAIN dags \ rdSeen
    /\ entries' = ReadDag(entries, dags[k], now, IsSuspended(dags[k]))
    /\ rdSeen' = rdSeen \cup {k}
    /\ rdSnap' = Put(rdSnap, k, dags[k])
    /\ rdSusp' = IF IsSuspended(dags[k]) THEN rdSusp \cup {k} ELSE rdSusp
    /\ UNCHANGED <<envVars, suspended, dags, dagsLock, halted, initVars, chanVars,
                   watchVars, pcR, now, rdErr, rdHist, invVars>>

ReadReturn ==
    /\ ~halted
    /\ pcR = "iter"
    /\ DOMAIN dags \subseteq rdSeen
    /\ dagsLock' = "free"
    /\ pcR' = "ret"
    /\ rdErr' = NilErr
    /\ UNCHANGED <<envVars, suspended, dags, halted, initVars, chanVars, watchVars,
                   now, entries, rdSeen, rdSnap, rdSusp, rdHist, invVars>>

\* the caller drops the result
ReadDone ==
    /\ ~halted
    /\ pcR = "ret"
    /\ pcR' = "idle"
    /\ now' = 0
    /\ entries' = <<>>
    /\ rdSeen' = {}
    /\ rdSnap' = EmptyMap
    /\ rdSusp' = {}
    /\ rdErr' = NotReturned
    /\ rdHist' = {}
    /\ UNCHANGED <<envVars, suspended, dags, dagsLock, halted, initVars, chanVars,
                   watchVars, invVars>>

(* ------------------------------- Invoke ------------------------------- *)
\* e.Job == nil
NilJob == [DAG |-> NilDAG, Next |-> ZeroTime]

JobErrors == {NilErr, "failed"}
NotInvoked == "not invoked"

LogLine(i, e, verb) ==
    [kind |-> "log", entry |-> i, time |-> e.Next, action |-> verb,
     job |-> e.Job.DAG.Name, result |-> NilErr]

JobCall(i, e, method, outcome) ==
    [kind |-> "call", entry |-> i, time |-> e.Job.Next, action |-> method,
     job |-> e.Job.DAG.Name, result |-> outcome]

\* mutant: the Job method's error is dropped
InvokeSwallow(i, e, outcome) ==
    IF e.Job = NilJob
    THEN [did |-> <<>>, ret |-> NilErr]
    ELSE CASE e.EntryType = EntryTypeStart ->
                [did |-> <<LogLine(i, e, "start"), JobCall(i, e, "Start", outcome)>>,
                 ret |-> NilErr]
           [] e.EntryType = EntryTypeStop ->
                [did |-> <<LogLine(i, e, "stop"), JobCall(i, e, "Stop", outcome)>>,
                 ret |-> NilErr]
           [] e.EntryType = EntryTypeRestart ->
                [did |-> <<LogLine(i, e, "restart"),
                           JobCall(i, e, "Restart", outcome)>>,
                 ret |-> NilErr]
           [] OTHER -> [did |-> <<>>, ret |-> NilErr]

\* mutant: the Job method is called first and the line logged on success only
InvokeLogOnSuccess(i, e, outcome) ==
    IF e.Job = NilJob
    THEN [did |-> <<>>, ret |-> NilErr]
    ELSE LET verb == CASE e.EntryType = EntryTypeStart -> "start"
                       [] e.EntryType = EntryTypeStop -> "stop"
                       [] OTHER -> "restart"
             method == CASE e.EntryType = EntryTypeStart -> "Start"
                         [] e.EntryType = EntryTypeStop -> "Stop"
                         [] OTHER -> "Restart"
         IN IF e.EntryType \notin EntryTypes
            THEN [did |-> <<>>, ret |-> NilErr]
            ELSE [did |-> IF outcome = NilErr
                          THEN <<JobCall(i, e, method, outcome), LogLine(i, e, verb)>>
                          ELSE <<JobCall(i, e, method, outcome)>>,
                  ret |-> outcome]

\* Entry.Invoke on the i-th Entry, whose Job method would return outcome:
\* what it logs and calls, in order, and what it returns
Invoke(i, e, outcome) ==
    IF e.Job = NilJob
    THEN [did |-> <<>>, ret |-> NilErr]
    ELSE CASE e.EntryType = EntryTypeStart ->
                [did |-> <<LogLine(i, e, "start"), JobCall(i, e, "Start", outcome)>>,
                 ret |-> outcome]
           [] e.EntryType = EntryTypeStop ->
                [did |-> <<LogLine(i, e, "stop"), JobCall(i, e, "Stop", outcome)>>,
                 ret |-> outcome]
           [] e.EntryType = EntryTypeRestart ->
                [did |-> <<LogLine(i, e, "restart"), JobCall(i, e, "Restart", outcome)>>,
                 ret |-> outcome]
           [] OTHER -> [did |-> <<>>, ret |-> NilErr]

InvokeEntry(i, outcome) ==
    /\ i \in 1..Len(batch)
    /\ rets[i] = NotInvoked
    /\ rets' = [rets EXCEPT ![i] = Invoke(i, batch[i], outcome).ret]
    /\ trace' = trace \o Invoke(i, batch[i], outcome).did
    /\ UNCHANGED <<envVars, suspended, dags, dagsLock, halted, initVars, chanVars,
                   watchVars, readVars, rdHist, batch>>

(* ---------------------------- specifications -------------------------- *)
ScanStart ==
    \/ InitLock
    \/ InitReadDir
    \/ InitScan
    \/ InitReturn
    \/ GoWatch

FsChange ==
    \/ \E f \in DefFiles, c \in {Bad} \cup Valid, op \in {Create, CreateWrite} :
          FsCreate(f, c, op)
    \/ \E f \in DefFiles, c \in {Bad} \cup Valid : FsWrite(f, c)
    \/ FsWrite(FileX, "v1")
    \/ \E f \in DefFiles : FsChmod(f)
    \/ \E f \in DefFiles, op \in {Remove, Rename} : FsRemove(f, op)
    \/ \E f \in Files : Deliver(f)

WatchDags ==
    \/ WatchNew
    \/ WatchAdd
    \/ WatchRecvEvent
    \/ WatchLock
    \/ WatchLoad
    \/ WatchRemove
    \/ WatchUnlock

WatchChannels ==
    \/ SendError
    \/ CloseEvents
    \/ CloseErrors
    \/ WatchRecvError
    \/ WatchClosed

ReadSteps(T) ==
    \/ \E t \in T : ReadCall(t)
    \/ ReadLock
    \/ \E k \in DefFiles : ReadIter(k)
    \/ ReadReturn
    \/ ReadDone

\* the reader from its construction on, with a concurrent Read
Next ==
    \/ ScanStart
    \/ FsChange
    \/ WatchDags
    \/ ReadSteps(Ticks)

Spec == Init /\ [][Next]_vars

RECURSIVE ScanSeq(_, _, _)
ScanSeq(d, dir, l) ==
    IF l = <<>> THEN d ELSE ScanSeq(ScanFile(d, dir, Head(l)), dir, Tail(l))

\* the registry initDags leaves for directory contents dir
ScanAll(dir) == ScanSeq(EmptyMap, dir, ReadDir(dir))

\* the scheduling of the three goroutines: each one that can take a step
\* takes it, and sync.Mutex hands the lock to a waiter that finds it free
\* again and again (its starvation mode)
Fairness ==
    /\ WF_vars(ScanStart)
    /\ WF_vars(WatchNew \/ WatchAdd \/ WatchRecvEvent \/ WatchLoad \/ WatchRemove
               \/ WatchUnlock)
    /\ SF_vars(WatchLock)
    /\ SF_vars(ReadLock)
    /\ WF_vars((\E k \in DefFiles : ReadIter(k)) \/ ReadReturn)

\* the changes of one definition file and of a file that is none: a creation
\* or write that loads or fails to load, a change of mode, a removal
FsChangeOne ==
    \/ \E c \in {Bad, "v1"}, op \in {Create, CreateWrite} : FsCreate(FileA, c, op)
    \/ \E c \in {Bad, "v1"} : FsWrite(FileA, c)
    \/ FsWrite(FileX, "v1")
    \/ FsChmod(FileA)
    \/ FsRemove(FileA, Remove)
    \/ \E f \in Files : Deliver(f)

NextFair ==
    \/ ScanStart
    \/ FsChangeOne
    \/ WatchDags
    \/ ReadSteps(Ticks)

\* the construction of a reader over a directory of at most one definition
\* file
InitFair ==
    /\ Init
    /\ fs[FileB] = Absent

SpecFair == InitFair /\ [][NextFair]_vars /\ Fairness

\* a reader just returned by newEntryReader over a readable directory
InitReturned ==
    /\ dirOK = TRUE
    /\ fs \in [Files -> Contents]
    /\ fs[FileX] = "v1"
    /\ fsOps = 0
    /\ dags = ScanAll(fs)
    /\ fold = dags
    /\ dagsLock = "free"
    /\ halted = FALSE
    /\ mainPc = "returned"
    /\ fis = <<>>
    /\ idx = 0
    /\ fileNames = <<>>
    /\ warnings = 0
    /\ initErr = FALSE
    /\ InitWatch
    /\ InitRead
    /\ InitInvoke

\* the watch loop with transport errors and closing channels
NextErrs ==
    \/ FsChange
    \/ WatchDags
    \/ WatchChannels

\* a reader returned over a directory of one definition file
InitErrs ==
    /\ InitReturned
    /\ fs[FileB] = Absent
    /\ fs[FileA] \in {Bad, "v1"}
    /\ suspended = {}
    /\ pcW = "new"
    /\ watching = FALSE

SpecErrs == InitErrs /\ [][NextErrs]_vars

\* Read over every registry and every setting of the suspend flags
NextRead ==
    \/ \E n \in DagNames : SetSuspended(n)
    \/ ReadSteps(Nows)

InitReading ==
    /\ InitReturned
    /\ suspended \in SUBSET DagNames
    /\ pcW = "select"
    /\ watching = TRUE

SpecRead == InitReading /\ [][NextRead]_vars

\* one batch of Entries, each invoked once
ADag == HeadOf(Join(DAGs, FileA), "v1")

BatchEntries ==
    {[Next |-> 1, Job |-> j, EntryType |-> e] :
        j \in {NilJob, [DAG |-> ADag, Next |-> 1]}, e \in EntryTypes}

BatchesOf(n) == UNION {[1..m -> BatchEntries] : m \in 1..n}

NextInvoke == \E i \in 1..MaxBatch, outcome \in JobErrors : InvokeEntry(i, outcome)

InitBatch ==
    /\ dirOK = TRUE
    /\ fs = [f \in Files |-> IF f = FileX THEN "v1" ELSE Absent]
    /\ fsOps = 0
    /\ suspended = {}
    /\ dags = EmptyMap
    /\ fold = EmptyMap
    /\ dagsLock = "free"
    /\ halted = FALSE
    /\ mainPc = "returned"
    /\ fis = <<>>
    /\ idx = 0
    /\ fileNames = <<>>
    /\ warnings = 0
    /\ initErr = FALSE
    /\ pcW = "select"
    /\ watching = TRUE
    /\ InitWatch
    /\ InitRead
    /\ batch \in BatchesOf(MaxBatch)
    /\ rets = [i \in 1..Len(batch) |-> NotInvoked]
    /\ trace = <<>>

SpecInvoke == InitBatch /\ [][NextInvoke]_vars

(* ------------------------------ properties ---------------------------- *)
NumSchedules(d) == Len(d.Schedule) + Len(d.StopSchedule) + Len(d.RestartSchedule)

EntriesOf(d) == {i \in 1..Len(entries) : entries[i].Job.DAG = d}

RECURSIVE SumSchedules(_, _)
SumSchedules(m, keys) ==
    IF keys = {} THEN 0
    ELSE LET k == CHOOSE x \in keys : TRUE
         IN NumSchedules(m[k]) + SumSchedules(m, keys \ {k})

\* C1: a Read that has returned holds no Entry for a DAG the suspend checker
\* reported suspended, exactly len(Schedule) + len(StopSchedule) +
\* len(RestartSchedule) Entries for every other DAG of the registry, and so
\* as many Entries in all as the non-suspended DAGs have schedules.
C1_ReadCounts ==
    pcR = "ret" =>
        /\ \A k \in DOMAIN dags :
              Cardinality(EntriesOf(dags[k])) =
                 IF k \in rdSusp THEN 0 ELSE NumSchedules(dags[k])
        /\ Len(entries) = SumSchedules(dags, DOMAIN dags \ rdSusp)

C1_Witness ==
    /\ pcR = "ret"
    /\ rdSusp # {}
    /\ \E k \in DOMAIN dags \ rdSusp : dags[k].Schedule = <<Every2, Every2>>
    /\ Len(entries) = 3

\* C2: Read and a registry mutation (the initial scan, the watch loop between
\* Lock and Unlock) are never in their critical sections together, and the
\* heads a returned Read saw are one registry state committed by the scan and
\* the events applied so far.
C2_Snapshot ==
    /\ pcR = "iter" => dagsLock = "reader" /\ mainPc = "returned"
                       /\ pcW \notin {"load", "remove", "unlock"}
    /\ pcW \in {"load", "remove", "unlock"} => dagsLock = "watcher"
    /\ mainPc \in {"readDir", "scan"} => dagsLock = "main"
    /\ pcR = "ret" => rdSnap \in rdHist

C2_Witness ==
    /\ pcR = "iter"
    /\ rdSeen # {}
    /\ pcW = "lock"
    /\ wEvent.Op = Remove
    /\ Base(wEvent.Name) \in rdSeen

\* C3: when initDags has returned over a readable directory it returned no
\* error and the registry holds exactly the definition files that load, each
\* under its file name with the head loaded from it; the files that fail to
\* load were counted and skipped, and no other file was inserted.
C3_Scan ==
    (mainPc = "initDone" /\ dirOK) =>
        /\ ~initErr
        /\ DOMAIN dags = {f \in DefFiles : fs[f] \in Valid}
        /\ \A f \in DOMAIN dags : dags[f] = HeadOf(Join(DAGs, f), fs[f])
        /\ Len(fileNames) = Cardinality({f \in DefFiles : fs[f] \in Valid})
        /\ warnings = Cardinality({f \in DefFiles : fs[f] = Bad})

C3_Witness ==
    /\ mainPc = "initDone"
    /\ fs[FileA] = Bad
    /\ fs[FileB] \in Valid
    /\ DOMAIN dags = {FileB}

\* C4: when the watch loop has handled a Create or a Write event, the
\* registry is the one it had when the event arrived with the loaded head
\* stored under the event's base name if the load succeeded, and exactly the
\* one it had if the load failed.
C4_Reload ==
    (pcW = "unlock" /\ (wEvent.Op = Create \/ wEvent.Op = Write)) =>
        IF wLoaded.err
        THEN dags = wPre
        ELSE /\ wLoaded.dag # NilDAG
             /\ dags = Put(wPre, Base(wEvent.Name), wLoaded.dag)

C4_Witness ==
    /\ pcW = "unlock"
    /\ wEvent.Op = Write
    /\ wLoaded.err
    /\ Base(wEvent.Name) \in DOMAIN wPre
    /\ FileB \in DOMAIN wPre

\* C5: when the watch loop has handled a Remove or a Rename event, the key of
\* the event's base name is absent, every other key is as it was, and the
\* registry is unchanged if the key was absent already.
C5_Remove ==
    (pcW = "unlock" /\ (wEvent.Op = Remove \/ wEvent.Op = Rename)) =>
        /\ Base(wEvent.Name) \notin DOMAIN dags
        /\ dags = Delete(wPre, Base(wEvent.Name))
        /\ Base(wEvent.Name) \notin DOMAIN wPre => dags = wPre

C5_Witness ==
    /\ pcW = "unlock"
    /\ wEvent.Op = Remove
    /\ Base(wEvent.Name) \notin DOMAIN wPre
    /\ wPre # EmptyMap

\* C6: a reader whose initial listing failed, or whose watch on the
\* directory could not be established, is never returned with its watch loop
\* waiting for events.
C6_FatalSetup ==
    (initErr \/ addFailed) => ~(mainPc = "returned" /\ pcW = "select")

CallsOf(i) == SelectSeq(trace, LAMBDA r : r.kind = "call" /\ r.entry = i)

MethodOf(e) ==
    CASE e = EntryTypeStart -> "Start"
      [] e = EntryTypeStop -> "Stop"
      [] e = EntryTypeRestart -> "Restart"

C7_Result ==
    \A i \in 1..Len(batch) :
        IF rets[i] = NotInvoked \/ batch[i].Job = NilJob
        THEN CallsOf(i) = <<>> /\ rets[i] \in {NotInvoked, NilErr}
        ELSE /\ Len(CallsOf(i)) = 1
             /\ CallsOf(i)[1].action = MethodOf(batch[i].EntryType)
             /\ rets[i] = CallsOf(i)[1].result

C7_Frame ==
    \A i \in 1..Len(batch) :
        rets'[i] # rets[i] =>
            /\ batch' = batch
            /\ \A j \in 1..Len(batch) \ {i} :
                  rets'[j] = rets[j] /\ CallsOf(j)' = CallsOf(j)

\* C7: an invoked Entry with a nil Job returned nil and called nothing; any
\* other invoked Entry called exactly one Job method, the one of its
\* EntryType, and returned what that call returned; an Invoke changes neither
\* the batch nor the result and calls of any other Entry.
C7_Invoke == []C7_Result /\ [][C7_Frame]_vars

C7_Witness ==
    \E i, j \in 1..Len(batch) :
        /\ rets[i] = "failed"
        /\ batch[j].Job # NilJob
        /\ rets[j] = NilErr
        /\ Len(CallsOf(j)) = 1

Last(q) == q[Len(q)]

EntryAt(m, f) == IF f \in DOMAIN m THEN m[f] ELSE NilDAG

C8_NetEffect ==
    /\ \A i \in 1..Len(evq) : evq[i].Op = Last(evq[i].burst)
    /\ pcW \in {"lock", "load", "remove", "unlock"} =>
          wEvent.Op = Last(wEvent.burst)
    /\ pcW = "unlock" =>
          LET key == Base(wEvent.Name)
              final == Last(wEvent.burst)
          IN /\ final \in {Remove, Rename} =>
                   key \notin DOMAIN dags /\ dags = Delete(wPre, key)
             /\ final \in {Create, Write} =>
                   IF wLoaded.err
                   THEN dags = wPre
                   ELSE wLoaded.dag # NilDAG /\ dags = Put(wPre, key, wLoaded.dag)

C8_OnlyDelivered ==
    \A f \in DefFiles :
        EntryAt(dags', f) # EntryAt(dags, f) =>
            \/ mainPc = "scan"
            \/ pcW \in {"load", "remove"} /\ Base(wEvent.Name) = f

\* C8: the events of one path that fall into one window reach the loop as one
\* event carrying the last kind; once handled the registry shows the effect of
\* that kind alone (absent after Remove or Rename, the loaded head or no
\* change after Create or Write), and the entry of a path changes in no step
\* other than the handling of an event delivered for it.
C8_Debounce == []C8_NetEffect /\ [][C8_OnlyDelivered]_vars

C8_Witness ==
    /\ pcW = "unlock"
    /\ wEvent.burst = <<Create, Remove>>
    /\ Base(wEvent.Name) \notin DOMAIN dags
    /\ wPre = dags

\* C9: the watch loop never holds dagsLock while the load of a Create or
\* Write event is in progress.
C9_LoadOutsideLock ==
    ~(pcW = "load" /\ IsCreateOrWrite(wEvent.Op) /\ dagsLock = "watcher")

C10_Running ==
    /\ pcW = "done" => dagsLock # "watcher" /\ wClosed
    /\ (errsSeen > 0 /\ pcW = "select" /\ evq # <<>>) => ENABLED WatchRecvEvent
    /\ (errsSeen > 0 /\ ~evClosed /\ ~errClosed) => pcW \in Running

C10_Step ==
    /\ errsSeen' > errsSeen => pcW' = "select" /\ ~wClosed'
    /\ (pcW # "done" /\ pcW' = "done") => evClosed \/ errClosed

\* C10: receiving a value from the error channel leaves the loop waiting in
\* its select with the watcher open, and events that arrive afterwards are
\* still received; the loop returns only with the event or the error channel
\* closed, and once it has returned it does not hold dagsLock and the watcher
\* is closed.
C10_Errors == []C10_Running /\ [][C10_Step]_vars

C10_Witness ==
    /\ errsSeen > 0
    /\ pcW = "unlock"
    /\ dags # wPre

\* the schedule group of a head an Entry kind is produced from
GroupOf(d, e) ==
    IF e = EntryTypeStart THEN d.Schedule
    ELSE IF e = EntryTypeStop THEN d.StopSchedule
    ELSE d.RestartSchedule

\* the returned Entries of head d and kind e, in the order of the batch
EntriesOfKind(d, e) ==
    SelectSeq(entries, LAMBDA x : x.Job.DAG = d /\ x.EntryType = e)

\* C11: every Entry a Read(now) has returned carries the kind of the schedule
\* group its expression came from (Schedule: Start, StopSchedule: Stop,
\* RestartSchedule: Restart), its Next is that expression's next occurrence
\* after now, and its Job is built from the DAG with the same Next: for every
\* non-suspended head and kind the Entries are, in order, one per expression of
\* that group.
C11_EntryFields ==
    pcR = "ret" =>
        /\ \A i \in 1..Len(entries) :
              /\ entries[i].EntryType \in EntryTypes
              /\ entries[i].Job.Next = entries[i].Next
              /\ \E k \in DOMAIN dags \ rdSusp : entries[i].Job.DAG = dags[k]
        /\ \A k \in DOMAIN dags \ rdSusp : \A e \in EntryTypes :
              LET got == EntriesOfKind(dags[k], e)
                  grp == GroupOf(dags[k], e)
              IN /\ Len(got) = Len(grp)
                 /\ \A j \in 1..Len(grp) : got[j].Next = ParsedNext(grp[j], now)

C11_Witness ==
    /\ pcR = "ret"
    /\ now = 2
    /\ {entries[i].EntryType : i \in 1..Len(entries)} = EntryTypes
    /\ \E i \in 1..Len(entries) :
          entries[i].EntryType = EntryTypeStop /\ entries[i].Next = 4

\* dagsLock is held exactly inside the three critical sections, and its
\* holder always has a next step
C12_Held ==
    /\ dagsLock = "main" <=> mainPc \in {"readDir", "scan"}
    /\ dagsLock = "watcher" <=> pcW \in {"load", "remove", "unlock"}
    /\ dagsLock = "reader" <=> pcR = "iter"
    /\ (dagsLock = "main" /\ ~halted) =>
          ENABLED (InitReadDir \/ InitScan \/ InitReturn)
    /\ (dagsLock = "watcher" /\ ~halted) =>
          ENABLED (WatchLoad \/ WatchRemove \/ WatchUnlock)
    /\ (dagsLock = "reader" /\ ~halted) =>
          ENABLED ((\E k \in DefFiles : ReadIter(k)) \/ ReadReturn)

\* C12: every acquisition of dagsLock by Read, initDags or the watch loop is
\* followed by its release on every path (a failed load and an ignored event
\* kind included): the lock is held only inside a critical section whose
\* holder can step, and under fair scheduling a held lock is released, an
\* event delivered to watchDags is received and applied, and a Read that was
\* called returns.
C12_NoBlocking ==
    /\ []C12_Held
    /\ \A h \in {"main", "watcher", "reader"} :
          (dagsLock = h) ~> (dagsLock # h \/ halted)
    /\ (evq # <<>>) ~> (evq = <<>>)
    /\ (pcW = "lock") ~> (pcW = "unlock")
    /\ (pcW = "unlock") ~> (pcW = "select")
    /\ (pcR = "wait") ~> (pcR = "ret" \/ halted)

C12_Witness ==
    /\ pcW = "unlock"
    /\ wLoaded.err
    /\ dagsLock = "watcher"
    /\ pcR = "wait"
    /\ evq # <<>>

\* C13: Read performs no mutation: no step of a Read call (the call, the Lock,
\* an iteration of the loop whether the checker answers suspended or not, the
\* return) changes the key set or a head of the registry, so the registry is
\* the same after the call as before it.
C13_ReadFrame ==
    [][(pcR' # pcR \/ rdSeen' # rdSeen) => dags' = dags]_vars

C13_Witness ==
    /\ pcR = "ret"
    /\ Cardinality(DOMAIN dags) = 2
    /\ Cardinality(rdSusp) = 1
    /\ rdSeen = DOMAIN dags
    /\ rdSnap = dags
    /\ entries # <<>>

\* an expression with no future occurrence
Unsatisfiable(ss) == \A t \in Nows : ParsedNext(ss, t) = ZeroTime

HasUnsatisfiable(d) ==
    \E e \in EntryTypes :
       \E j \in 1..Len(GroupOf(d, e)) : Unsatisfiable(GroupOf(d, e)[j])

\* C14: a schedule expression without a future occurrence does not abort the
\* batch: Read returns a nil error whatever the heads hold, every non-suspended
\* workflow without such an expression has all its Entries in the batch, and
\* the Entry of the bad expression is there with the zero time as its Next.
C14_BadSchedule ==
    pcR = "ret" =>
        /\ rdErr = NilErr
        /\ \A k \in DOMAIN dags \ rdSusp :
              ~HasUnsatisfiable(dags[k]) =>
                  Cardinality(EntriesOf(dags[k])) = NumSchedules(dags[k])
        /\ \A k \in DOMAIN dags \ rdSusp : \A e \in EntryTypes :
              LET got == EntriesOfKind(dags[k], e)
                  grp == GroupOf(dags[k], e)
              IN \A j \in 1..Len(grp) :
                    Unsatisfiable(grp[j]) =>
                        /\ Len(got) = Len(grp)
                        /\ got[j].Next = ZeroTime
                        /\ got[j].Job.Next = ZeroTime

C14_Witness ==
    /\ pcR = "ret"
    /\ rdErr = NilErr
    /\ \E k \in DOMAIN dags \ rdSusp : HasUnsatisfiable(dags[k])
    /\ \E k \in DOMAIN dags \ rdSusp : ~HasUnsatisfiable(dags[k])
    /\ \E i \in 1..Len(entries) : entries[i].Next = ZeroTime
    /\ Len(entries) = 5

\* the positions in the trace of the records of one kind of the i-th Entry
TraceAt(i, kind) ==
    {p \in 1..Len(trace) : trace[p].kind = kind /\ trace[p].entry = i}

VerbOf(e) ==
    CASE e = EntryTypeStart -> "start"
      [] e = EntryTypeStop -> "stop"
      [] e = EntryTypeRestart -> "restart"

\* C15: every Invoke on an Entry with a non-nil Job and a kind of Start, Stop
\* or Restart has emitted exactly one log line, which names the Entry's Next,
\* the action of its kind and the Job, and which comes before the call of the
\* Job method in the trace, whether that call returned an error or not.
C15_AuditLog ==
    \A i \in 1..Len(batch) :
        (/\ rets[i] # NotInvoked
         /\ batch[i].Job # NilJob
         /\ batch[i].EntryType \in EntryTypes) =>
            /\ Cardinality(TraceAt(i, "log")) = 1
            /\ \A p \in TraceAt(i, "log") :
                  /\ trace[p].time = batch[i].Next
                  /\ trace[p].action = VerbOf(batch[i].EntryType)
                  /\ trace[p].job = batch[i].Job.DAG.Name
                  /\ \A q \in TraceAt(i, "call") : p < q

C15_Witness ==
    \E i \in 1..Len(batch) :
        /\ rets[i] = "failed"
        /\ batch[i].EntryType = EntryTypeRestart
        /\ \E p \in TraceAt(i, "log") : \E q \in TraceAt(i, "call") :
              p < q /\ trace[q].result = "failed"

\* outside the handling of an event the registry is the fold of the handled
\* events over the scan result, and inside it the fold of the earlier ones is
\* the registry the event found
C16_Fold ==
    mainPc = "returned" =>
        IF pcW \in {"load", "remove", "unlock"}
        THEN fold = wPre
        ELSE fold = dags

\* the loop takes the oldest event of the channel, and takes none while it
\* is handling one
C16_InOrder ==
    /\ (pcW = "select" /\ pcW' = "lock") =>
          evq # <<>> /\ wEvent' = Head(evq) /\ evq' = Tail(evq)
    /\ (wEvent' # wEvent) => pcW \in {"select", "unlock"}
    /\ (pcW \in {"lock", "load", "remove"}) => pcW' # "select"

\* C16: the events of a path are applied in the order they arrive, one at a
\* time, and the registry is the serial fold of the handled events over the
\* result of the initial scan: an insert or replace for each Create or Write
\* whose load succeeded, a delete for each Remove or Rename.
C16_SerialFold == []C16_Fold /\ [][C16_InOrder]_vars

C16_Witness ==
    /\ pcW = "unlock"
    /\ wEvent.Op = Write
    /\ ~wLoaded.err
    /\ Base(wEvent.Name) \in DOMAIN fold
    /\ fold[Base(wEvent.Name)] # dags[Base(wEvent.Name)]
    /\ fsOps = MaxFsOps

\* what the pointer held by a returned Entry's Job points to now: the object
\* as the registry holds it while it is stored there, and the object as it was
\* read once the registry, the only writer, has dropped it
Deref(d) ==
    LET held == {k \in DOMAIN dags :
                    dags[k].obj = d.obj /\ dags[k].Location = d.Location}
    IN IF held = {} THEN d ELSE dags[CHOOSE k \in held : TRUE]

C17_SameObject ==
    pcR = "ret" =>
        \A i \in 1..Len(entries) : Deref(entries[i].Job.DAG) = entries[i].Job.DAG

C17_Kept ==
    (pcR = "ret" /\ pcR' = "ret") => entries' = entries

\* C17: a reload stores a new head object and never writes into the stored
\* one: the head an Entry of a returned Read refers to still has the contents
\* it had at that Read, and no later Create, Write, Remove or Rename event
\* changes the DAG or the Next of a returned Entry.
C17_NoInPlace == []C17_SameObject /\ [][C17_Kept]_vars

C17_Witness ==
    /\ pcR = "ret"
    /\ pcW = "unlock"
    /\ wEvent.Op = Write
    /\ \E i \in 1..Len(entries) :
          LET k == Base(entries[i].Job.DAG.Location)
          IN /\ k = Base(wEvent.Name)
             /\ k \in DOMAIN dags
             /\ dags[k] # entries[i].Job.DAG
             /\ dags[k].Schedule # entries[i].Job.DAG.Schedule

\* the watcher is set up on the directory and nothing is in flight: no raw
\* event waits in a window, none is in the channel, the loop is idle
Quiet ==
    /\ mainPc = "returned"
    /\ pcW = "select"
    /\ watching
    /\ ~halted
    /\ evq = <<>>
    /\ \A f \in Files : pending[f] = NoOp

\* C18: the registry is kept current after startup: once the watcher is set
\* up and every event has been handled, every definition file of the
\* directory that loads is a key of the registry, also a file that was
\* created after the initial scan and before the directory was added to the
\* watcher.
C18_KeptCurrent ==
    Quiet => \A f \in DefFiles : fs[f] \in Valid => f \in DOMAIN dags

\* C19: the watch loop classifies an event by the operations its Op contains:
\* when it has handled an event whose Op includes Create or Write the loader
\* was called and the registry holds the loaded head (or is as the event found
\* it, if the load failed), and when the Op includes Remove or Rename the key
\* is gone, also for an Op of several bits such as Create together with Write.
C19_OpBits ==
    pcW = "unlock" =>
        LET key == Base(wEvent.Name)
            hasAny(bits) == wEvent.Op \cap bits # {}
        IN /\ (hasAny(Create \cup Write) /\ ~hasAny(Remove \cup Rename)) =>
                 /\ wLoaded # NoLoad
                 /\ dags = IF wLoaded.err THEN wPre ELSE Put(wPre, key, wLoaded.dag)
           /\ hasAny(Remove \cup Rename) => key \notin DOMAIN dags

C20_Keys ==
    \A k \in DOMAIN dags : k.dir = NoDir /\ MatchExtension(k, EXTENSIONS)

\* the receive of an event whose name has no recognized extension
C20_Ignored ==
    (/\ pcW = "select"
     /\ evq # <<>>
     /\ evq' = Tail(evq)
     /\ ~MatchExtension(Head(evq).Name, EXTENSIONS)) =>
        dags' = dags /\ pcW' = "select" /\ dagsLock' = dagsLock

\* C20: in every reachable state every key of the registry is a base file
\* name, without a directory component, with a recognized extension: the scan
\* and the watch loop store under such names only, and the loop leaves the
\* registry as it is when it receives an event whose name does not match.
C20_KeyShape == []C20_Keys /\ [][C20_Ignored]_vars

C20_Witness ==
    /\ pcW = "unlock"
    /\ wEvent.Name.dir = DAGs
    /\ Base(wEvent.Name) \in DOMAIN dags \ DOMAIN wPre
    /\ evq # <<>>
    /\ Head(evq).Name = Join(DAGs, FileX)

====
